---- MODULE Spec2Model ----
(***************************************************************************)
(* A model of the flutter-video-plugin playback pipeline.                  *)
(*                                                                         *)
(*   plugin.rs  Handler::on_method_call   the command surface              *)
(*   player.rs  Player, PlaybackContext   the session and the decoder task *)
(*   video.rs   VideoPlayer               the render thread                *)
(*   audio.rs   AudioPlayer, AudioStream  the audio device and its fill    *)
(*                                        callback                         *)
(*                                                                         *)
(* Every per-session variable is a function over Textures, the texture ids *)
(* the engine hands out; a session exists for the ids in `streams`.        *)
(***************************************************************************)
EXTENDS Integers, Sequences, FiniteSets, TLC

(***************************************************************************)
(* Program constants.                                                      *)
(***************************************************************************)
\* player.rs:161  mpsc::sync_channel(24)
VideoQueueCapacity == 24
\* player.rs:164 (AtomicI8::new(0)) and player.rs:225 (pause stores 0)
StatePaused == 0
\* player.rs:217  play stores 1
StatePlaying == 1
\* player.rs:154  Drop for Player stores -1
StateTerminating == -1
\* player.rs:178  the decoder task stores -2 when it leaves its loop
StateTerminated == -2
\* audio.rs:148  `as i16` saturates at the ends of the 16-bit range
I16Max == 32767
I16Min == -32768
\* video.rs:84  `(pts - prev) as u32`: the span of a u32.  Time is counted in
\* units of 512 ns, so 2^32 ns are 2^23 units (and one second is 1953125).
U32Nanos == 8388608
\* audio.rs:97  `audio.rate as _` into SampleRate(u32) on a 64-bit usize.
\* Sample rates are counted in units of 4 Hz, so 2^32 Hz are 2^30 units.
U32Rate == 1073741824
\* audio.rs:96  `m.len() as _` into a u16 channel count
U16Span == 65536

(***************************************************************************)
(* Bounds of the model.                                                    *)
(***************************************************************************)
\* packets in the long, video-only asset (more than the video queue holds)
LongLen == 26
\* packets read from the mixed asset
MixedLen == 10
\* packets read from the audio asset
AudioLen == 5
\* largest output buffer the audio device hands to the fill callback
MaxBuf == 2

Textures == {1, 2}

(***************************************************************************)
(* Frames and demuxer events.                                              *)
(***************************************************************************)
NoFrame == [id |-> 0, kind |-> "None", data |-> <<>>]

\* An ArcFrame as the pipeline sees it: its kind, its samples (audio) and,
\* as identity, the index of the packet it was decoded from.
Frame(id, kind, data) == [id |-> id, kind |-> kind, data |-> data]

\* Demuxer events (player.rs:126-141).  "Video"/"Audio": a packet of a
\* mapped stream whose decoder returns a frame; "Pending": the decoder has
\* no frame ready; "Skip": a packet of an unmapped stream; "DemuxErr":
\* read_event fails; "DecodeErr": send_packet fails; "Eof"; "Unsupported":
\* any other event.
Ev(tag, data) == [tag |-> tag, data |-> data]

\* The AudioInfo of a stream: its sample rate (in units of 4 Hz) and the
\* length of its channel map.
StereoInfo == [rate |-> 12000, channels |-> 2]

\* An asset: the packets of the container, cycled up to `len`, then `tail`
\* for ever; the AudioInfo of its audio stream; and the presentation times
\* of its first packets, in nanoseconds / 512 (packet p of the rest is
\* presented at p times 40 ms).
NoAsset == [cycle |-> <<>>, len |-> 0, tail |-> "None",
            audio |-> [rate |-> 0, channels |-> 0], pts |-> <<>>]

Asset(cycle, len, tail) ==
    [cycle |-> cycle, len |-> len, tail |-> tail, audio |-> StereoInfo, pts |-> <<>>]

LongVideoAsset == Asset(<<Ev("Video", <<>>)>>, LongLen, "Eof")

MixedCycle ==
    << Ev("Audio", <<100, -200>>), Ev("Video", <<>>), Ev("Skip", <<>>),
       Ev("Audio", <<30000>>), Ev("Pending", <<>>), Ev("DemuxErr", <<>>),
       Ev("Video", <<>>), Ev("Audio", <<>>), Ev("DecodeErr", <<>>),
       Ev("Audio", <<-7, 8, 9>>) >>

MixedAsset == Asset(MixedCycle, MixedLen, "Eof")

BrokenAsset == Asset(<<Ev("Video", <<>>), Ev("Audio", <<5>>)>>, 2, "Unsupported")

AudioCycle ==
    << Ev("Audio", <<100, -200>>), Ev("Audio", <<30000>>), Ev("Video", <<>>),
       Ev("Audio", <<>>), Ev("Audio", <<-7, 8, 9>>) >>

AudioAsset == Asset(AudioCycle, AudioLen, "Eof")

TinyAsset == Asset(<<Ev("Video", <<>>)>>, 1, "Eof")

EmptyAsset == Asset(<<Ev("Video", <<>>)>>, 0, "Eof")

EventAt(asset, p) ==
    IF p <= asset.len
    THEN asset.cycle[((p - 1) % Len(asset.cycle)) + 1]
    ELSE Ev(asset.tail, <<>>)

\* video.rs:77-80  the frame's pts in nanoseconds (here / 512)
PtsAt(asset, p) == IF p <= Len(asset.pts) THEN asset.pts[p] ELSE p * 78125

\* prev_pts = None
NoPts == -1

(***************************************************************************)
(* Volume: an f64, modelled as a fraction <<numerator, denominator>>.      *)
(***************************************************************************)
Volumes == { <<1, 2>>, <<-3, 1>> }

TruncDiv(a, b) == IF a >= 0 THEN a \div b ELSE -((-a) \div b)

Saturate(x) == IF x > I16Max THEN I16Max ELSE IF x < I16Min THEN I16Min ELSE x

\* A scaling that cuts the volume to an integer before it multiplies.
ScaleIntVolume(s, v) == Saturate(s * TruncDiv(v[1], v[2]))

\* audio.rs:148  (data[in_i] as f64 * volume) as i16
Scale(s, v) == Saturate(TruncDiv(s * v[1], v[2]))

\* 1 / volume
Inverse(v) == IF v[1] > 0 THEN <<v[2], v[1]>> ELSE <<-v[2], -v[1]>>

(***************************************************************************)
(* The host: the formats the default output device supports, and the wall  *)
(* clock times `now.elapsed()` can return between two renders.             *)
(***************************************************************************)
StereoFormat ==
    [min_sample_rate |-> 11025, max_sample_rate |-> 12000, channels |-> 2,
     data_type |-> "I16"]

QuietHost == [formats |-> {StereoFormat}, elapsed |-> {0}]

\* audio.rs:95-99  the Format asked for
FormatOf(info) ==
    [channels |-> info.channels % U16Span,
     sample_rate |-> info.rate % U32Rate,
     data_type |-> "I16"]

\* audio.rs:100-111  the search through device.supported_output_formats()
Supported(formats, format) ==
    \E sf \in formats :
        /\ sf.min_sample_rate <= format.sample_rate
        /\ sf.max_sample_rate >= format.sample_rate
        /\ sf.channels = format.channels
        /\ sf.data_type = format.data_type

\* audio.rs:117  format.shape(), the shape the output stream is built with
ShapeOf(format) == [channels |-> format.channels, sample_rate |-> format.sample_rate]

NoShape == [channels |-> 0, sample_rate |-> 0]

\* A sample and a volume on which the scaling is tried, and the result.
NoProbe == [s |-> 0, v |-> <<1, 1>>, done |-> FALSE, back |-> 0]

\* A frame's geometry (width and height of the picture, row strides of the
\* luma and of the chroma planes), the pixels converted so far, and for the
\* last of them its coordinates and the indices read in the three planes.
NoPixel ==
    [width |-> 0, height |-> 0, y_stride |-> 0, c_stride |-> 0, n |-> 0,
     x |-> 0, y |-> 0, y_i |-> 0, u_i |-> 0, v_i |-> 0]

VARIABLES
    host,        \* the output device and the clock of the machine
    probe,       \* a sample scaled by a volume and scaled back
    pixel,       \* the plane indices read for a pixel of a frame
    shape,       \* AudioPlayer.shape of the session
    assets,      \* the asset the host names when it creates texture t
    streams,     \* Handler.streams: the registered texture ids
    nextTexture, \* the id engine.create_texture() returns next
    plugin,      \* TRUE while the VideoPlugin (and its Handler) is alive
    lastCall,    \* the last method call and its result
    disposed,    \* the sessions "dispose" has been called for
    state,       \* Player.state, the shared AtomicI8
    audio,       \* AudioStream: "none", "stopped", "started", "dropped"
    volume,      \* AudioStream.volume
    dpc,         \* decoder task: "none", "check", "decode", "send", "done", "panicked"
    pos,         \* packets the demuxer has handed out
    dframe,      \* the frame the decoder task is about to send
    videoQ,      \* the sync_channel(24) of video frames
    audioQ,      \* the unbounded channel of audio frames
    rpc,         \* render thread: "none", "gate", "recv", "post", "exited"
    rframe,      \* the frame the render thread has received
    published,   \* frames posted to the texture, in order
    prev_pts,    \* the render thread's prev_pts (NoPts: None)
    elapsed,     \* now.elapsed() as read before the last render
    slept,       \* how long the render thread slept before the last render
    cpc,         \* fill callback: "none", "idle", "loop"
    cbVolume,    \* the callback's copy of the volume
    out_len,     \* samples of the output buffer still to fill
    buffer,      \* samples written to the output buffer (out_off = Len)
    frame,       \* the callback's partial frame
    in_off,      \* samples of `frame` already consumed
    emitted,     \* samples written by the callbacks that have returned
    vSent,       \* frames the video queue accepted, in order
    aSent,       \* frames the audio queue accepted, in order
    lost         \* frames whose send failed, in order

handlerVars == <<host, probe, pixel, shape, assets, streams, nextTexture, plugin, lastCall, disposed>>
playerVars == <<state, audio, volume>>
decoderVars == <<dpc, pos, dframe>>
queueVars == <<videoQ, audioQ, vSent, aSent, lost>>
paceVars == <<prev_pts, elapsed, slept>>
renderVars == <<rpc, rframe, published, paceVars>>
callbackVars == <<cpc, cbVolume, out_len, buffer, frame, in_off, emitted>>
vars == <<handlerVars, playerVars, decoderVars, queueVars, renderVars, callbackVars>>

NoCall == [method |-> "none", id |-> 0, result |-> "none"]
Call(m, t, r) == [method |-> m, id |-> t, result |-> r]

(***************************************************************************)
(* The state after construction: a Handler with no stream.               *)
(***************************************************************************)
InitOf(hostAssets, h, p, px) ==
    /\ host = h
    /\ probe = p
    /\ pixel = px
    /\ shape = [t \in Textures |-> NoShape]
    /\ prev_pts = [t \in Textures |-> NoPts]
    /\ elapsed = [t \in Textures |-> 0]
    /\ slept = [t \in Textures |-> 0]
    /\ assets = hostAssets
    /\ streams = {}
    /\ nextTexture = 1
    /\ plugin = TRUE
    /\ lastCall = NoCall
    /\ disposed = {}
    /\ state = [t \in Textures |-> StatePaused]
    /\ audio = [t \in Textures |-> "none"]
    /\ volume = [t \in Textures |-> <<1, 1>>]
    /\ dpc = [t \in Textures |-> "none"]
    /\ pos = [t \in Textures |-> 1]
    /\ dframe = [t \in Textures |-> NoFrame]
    /\ videoQ = [t \in Textures |-> <<>>]
    /\ audioQ = [t \in Textures |-> <<>>]
    /\ rpc = [t \in Textures |-> "none"]
    /\ rframe = [t \in Textures |-> NoFrame]
    /\ published = [t \in Textures |-> <<>>]
    /\ cpc = [t \in Textures |-> "none"]
    /\ cbVolume = [t \in Textures |-> <<1, 1>>]
    /\ out_len = [t \in Textures |-> 0]
    /\ buffer = [t \in Textures |-> <<>>]
    /\ frame = [t \in Textures |-> NoFrame]
    /\ in_off = [t \in Textures |-> 0]
    /\ emitted = [t \in Textures |-> 0]
    /\ vSent = [t \in Textures |-> <<>>]
    /\ aSent = [t \in Textures |-> <<>>]
    /\ lost = [t \in Textures |-> <<>>]

InitIn(hostAssets, h, p) == InitOf(hostAssets, h, p, NoPixel)

InitWith(hostAssets) == InitIn(hostAssets, QuietHost, NoProbe)

(***************************************************************************)
(* plugin.rs: Handler::on_method_call.                                     *)
(***************************************************************************)
Registered(t) == plugin /\ t \in streams

\* player.rs:24-30 and audio.rs:9-16: the errors Player::from_path returns
AudioErrors == {"NoOutputDevice", "SupportedFormats", "FormatNotSupported", "BuildStream"}
CreateOutcomes == {"ok", "Io", "Format", "Codec"} \cup AudioErrors

\* player.rs:159-203  Player::from_path, when every fallible step has
\* succeeded: the session's state is 0, the audio stream exists and is not
\* started, the render thread and the decoder task are spawned.
SpawnPlayer(t) ==
    /\ state' = [state EXCEPT ![t] = StatePaused]
    /\ audio' = [audio EXCEPT ![t] = "stopped"]
    /\ volume' = [volume EXCEPT ![t] = <<1, 1>>]
    /\ shape' = [shape EXCEPT ![t] = ShapeOf(FormatOf(assets[t].audio))]
    /\ rpc' = [rpc EXCEPT ![t] = "gate"]
    /\ dpc' = [dpc EXCEPT ![t] = "check"]
    /\ cpc' = [cpc EXCEPT ![t] = "idle"]

\* audio.rs:90-119  AudioPlayer::new can return `outcome`: the format is
\* found (new succeeds, and create_stream may still fail) or it is not.
AudioPlayerNew(info, outcome) ==
    /\ outcome \in {"ok", "BuildStream"} => Supported(host.formats, FormatOf(info))
    /\ outcome = "FormatNotSupported" => ~Supported(host.formats, FormatOf(info))

\* A create that spawns the session's threads before the fallible steps.
CreateSpawnsFirst(t, outcome) ==
    /\ plugin
    /\ t = nextTexture
    /\ assets[t] # NoAsset
    /\ AudioPlayerNew(assets[t].audio, outcome)
    /\ nextTexture' = nextTexture + 1
    /\ SpawnPlayer(t)
    /\ IF outcome = "ok"
       THEN /\ streams' = streams \cup {t}
            /\ lastCall' = Call("create", t, "textureId")
       ELSE /\ lastCall' = Call("create", t, outcome)
            /\ UNCHANGED streams
    /\ UNCHANGED <<host, probe, pixel, assets, plugin, disposed, pos, dframe, queueVars, rframe,
                   published, paceVars,
                   cbVolume, out_len, buffer, frame, in_off, emitted>>

\* plugin.rs:56-83  "create": a texture is created, then the player; an
\* error of Player::from_path (player.rs:160, 168, 169) is returned before
\* a thread is spawned and before anything is registered.
Create(t, outcome) ==
    /\ plugin
    /\ t = nextTexture
    /\ assets[t] # NoAsset
    /\ AudioPlayerNew(assets[t].audio, outcome)
    /\ nextTexture' = nextTexture + 1
    /\ IF outcome = "ok"
       THEN /\ SpawnPlayer(t)
            /\ streams' = streams \cup {t}
            /\ lastCall' = Call("create", t, "textureId")
       ELSE /\ lastCall' = Call("create", t, outcome)
            /\ UNCHANGED <<streams, state, audio, volume, shape, rpc, dpc, cpc>>
    /\ UNCHANGED <<host, probe, pixel, assets, plugin, disposed, pos, dframe, queueVars, rframe,
                   published, paceVars,
                   cbVolume, out_len, buffer, frame, in_off, emitted>>

\* audio.rs:66-69 and 71-74: the device starts or stops, or reports an error
\* and stays as it was.
DeviceResults == {"ok", "DeviceError"}

\* A play that stores the state before it starts the device.
PlayerPlayStoresFirst(t, dev) ==
    /\ state' = [state EXCEPT ![t] = StatePlaying]
    /\ IF dev = "ok"
       THEN audio' = [audio EXCEPT ![t] = "started"]
       ELSE UNCHANGED audio

\* player.rs:213-219  Player::play, called from plugin.rs:103-108
PlayerPlay(t, dev) ==
    IF dev = "ok"
    THEN /\ audio' = [audio EXCEPT ![t] = "started"]
         /\ state' = [state EXCEPT ![t] = StatePlaying]
    ELSE UNCHANGED <<audio, state>>

\* A pause that stops the device and leaves the state as it was.
PlayerPauseKeepsState(t, dev) ==
    /\ IF dev = "ok"
       THEN audio' = [audio EXCEPT ![t] = "stopped"]
       ELSE UNCHANGED audio
    /\ UNCHANGED state

\* player.rs:221-227  Player::pause, called from plugin.rs:97-102
PlayerPause(t, dev) ==
    IF dev = "ok"
    THEN /\ audio' = [audio EXCEPT ![t] = "stopped"]
         /\ state' = [state EXCEPT ![t] = StatePaused]
    ELSE UNCHANGED <<audio, state>>

\* A play that still reaches the player after the plugin was dropped.
PlayOnDropped(t, dev) ==
    /\ IF t \in streams
       THEN /\ PlayerPlay(t, dev)
            /\ lastCall' = Call("play", t, IF dev = "ok" THEN "Null" ELSE dev)
       ELSE /\ lastCall' = Call("play", t, "InvalidTextureId")
            /\ UNCHANGED <<audio, state>>
    /\ UNCHANGED <<host, probe, pixel, shape, assets, streams, nextTexture, plugin, disposed,
                   volume, decoderVars, queueVars, renderVars, callbackVars>>

\* plugin.rs:103-108  "play"
Play(t, dev) ==
    /\ plugin
    /\ IF t \in streams
       THEN /\ PlayerPlay(t, dev)
            /\ lastCall' = Call("play", t, IF dev = "ok" THEN "Null" ELSE dev)
       ELSE /\ lastCall' = Call("play", t, "InvalidTextureId")
            /\ UNCHANGED <<audio, state>>
    /\ UNCHANGED <<host, probe, pixel, shape, assets, streams, nextTexture, plugin, disposed,
                   volume, decoderVars, queueVars, renderVars, callbackVars>>

\* plugin.rs:97-102  "pause"
Pause(t, dev) ==
    /\ plugin
    /\ IF t \in streams
       THEN /\ PlayerPause(t, dev)
            /\ lastCall' = Call("pause", t, IF dev = "ok" THEN "Null" ELSE dev)
       ELSE /\ lastCall' = Call("pause", t, "InvalidTextureId")
            /\ UNCHANGED <<audio, state>>
    /\ UNCHANGED <<host, probe, pixel, shape, assets, streams, nextTexture, plugin, disposed, volume, decoderVars,
                   queueVars, renderVars, callbackVars>>

\* A setVolume that sets the volume of every registered session.
SetVolumeAll(t, v) ==
    /\ plugin
    /\ IF t \in streams
       THEN /\ volume' = [u \in Textures |-> IF u \in streams THEN v ELSE volume[u]]
            /\ lastCall' = Call("setVolume", t, "Null")
       ELSE /\ lastCall' = Call("setVolume", t, "InvalidTextureId")
            /\ UNCHANGED volume
    /\ UNCHANGED <<host, probe, pixel, shape, assets, streams, nextTexture, plugin, disposed, state, audio,
                   decoderVars, queueVars, renderVars, callbackVars>>

\* plugin.rs:91-96  "setVolume" -> player.rs:235-239 -> audio.rs:76-78
SetVolume(t, v) ==
    /\ plugin
    /\ IF t \in streams
       THEN /\ volume' = [volume EXCEPT ![t] = v]
            /\ lastCall' = Call("setVolume", t, "Null")
       ELSE /\ lastCall' = Call("setVolume", t, "InvalidTextureId")
            /\ UNCHANGED volume
    /\ UNCHANGED <<host, probe, pixel, shape, assets, streams, nextTexture, plugin, disposed, state, audio,
                   decoderVars, queueVars, renderVars, callbackVars>>

\* A position that counts the frames rendered.
PlayerPositionFrames(t) == Len(published[t])

\* player.rs:229-231  Player::position
PlayerPosition(t) == 0

\* plugin.rs:113  Value::I64(position)
I64Value(n) == IF n = 0 THEN "I64(0)" ELSE "I64(nonzero)"

\* The methods whose arm changes nothing of a session: "init"
\* (plugin.rs:84), "setLooping" (85-90), "position" (109-114), "seekTo"
\* (115-120), and every other name, "dispose" among them, which falls to
\* the last arm (plugin.rs:121).
QueryMethods == {"setLooping", "position", "seekTo"}
OtherMethods == {"init", "dispose"}

MethodResult(m, t) ==
    CASE m = "init" -> "Null"
      [] m \in QueryMethods /\ t \notin streams -> "InvalidTextureId"
      [] m = "position" -> I64Value(PlayerPosition(t))
      [] m \in QueryMethods -> "Null"
      [] OTHER -> "NotImplemented"

OtherCall(m, t) ==
    /\ plugin
    /\ lastCall' = Call(m, t, MethodResult(m, t))
    /\ disposed' = IF m = "dispose" /\ t \in streams THEN disposed \cup {t} ELSE disposed
    /\ UNCHANGED <<host, probe, pixel, shape, assets, streams, nextTexture, plugin, playerVars,
                   decoderVars, queueVars, renderVars, callbackVars>>

\* player.rs:152-156  Drop for Player, run for every registered session
\* when the plugin (plugin.rs:28-36) and with it Handler.streams is
\* dropped: the state becomes -1 and the AudioStream field is released.
PlayerDrop(dropped) ==
    /\ state' = [u \in Textures |-> IF u \in dropped THEN StateTerminating ELSE state[u]]
    /\ audio' = [u \in Textures |-> IF u \in dropped THEN "dropped" ELSE audio[u]]

PluginDrop ==
    /\ plugin
    /\ plugin' = FALSE
    /\ streams # {}
    /\ PlayerDrop(streams)
    /\ lastCall' = Call("(dropped)", 0, "none")
    /\ UNCHANGED <<host, probe, pixel, shape, assets, streams, nextTexture, disposed, volume, decoderVars,
                   queueVars, renderVars, callbackVars>>

(***************************************************************************)
(* player.rs: the decoder task.                                            *)
(***************************************************************************)
\* A decode_one that reports a packet of an unmapped stream as an error.
decode_oneSkipIsError(ev, id) ==
    CASE ev.tag \in {"Video", "Audio"} ->
            [tag |-> "Some", frame |-> Frame(id, ev.tag, ev.data)]
      [] ev.tag \in {"Pending", "Eof"} -> [tag |-> "None", frame |-> NoFrame]
      [] ev.tag \in {"Skip", "DemuxErr", "DecodeErr"} -> [tag |-> "Err", frame |-> NoFrame]
      [] OTHER -> [tag |-> "Panic", frame |-> NoFrame]

\* player.rs:125-142  PlaybackContext::decode_one on the next event
decode_one(ev, id) ==
    CASE ev.tag \in {"Video", "Audio"} ->
            [tag |-> "Some", frame |-> Frame(id, ev.tag, ev.data)]
      [] ev.tag \in {"Pending", "Skip", "Eof"} -> [tag |-> "None", frame |-> NoFrame]
      [] ev.tag \in {"DemuxErr", "DecodeErr"} -> [tag |-> "Err", frame |-> NoFrame]
      [] OTHER -> [tag |-> "Panic", frame |-> NoFrame]

\* The receiving ends.  The render thread owns v_r until it returns
\* (video.rs:63-120); the fill callback owns a_r until the AudioStream is
\* dropped, and a callback that is running finishes first.
VideoRxAlive(t) == rpc[t] \in {"gate", "recv", "post"}
AudioRxAlive(t) == audio[t] \in {"stopped", "started"} \/ cpc[t] = "loop"
\* The sending ends v_s and a_s live in the decoder task's closure.
SendersAlive(t) == dpc[t] \in {"check", "decode", "send"}

\* A check that compares with the wrong value.
ShouldTerminateMiss(s) == s < StateTerminated

\* player.rs:177-180  the per-iteration check of the shared state
ShouldTerminate(s) == s < 0

DecoderCheck(t) ==
    /\ dpc[t] = "check"
    /\ IF ShouldTerminate(state[t])
       THEN /\ state' = [state EXCEPT ![t] = StateTerminated]
            /\ dpc' = [dpc EXCEPT ![t] = "done"]
       ELSE /\ dpc' = [dpc EXCEPT ![t] = "decode"]
            /\ UNCHANGED state
    /\ UNCHANGED <<handlerVars, audio, volume, pos, dframe, queueVars,
                   renderVars, callbackVars>>

\* A loop that an error of decode_one ends.
DecoderDecodeErrBreaks(t) ==
    /\ dpc[t] = "decode"
    /\ LET r == decode_one(EventAt(assets[t], pos[t]), pos[t]) IN
        /\ pos' = [pos EXCEPT ![t] = IF pos[t] <= assets[t].len THEN pos[t] + 1 ELSE pos[t]]
        /\ dframe' = [dframe EXCEPT ![t] = r.frame]
        /\ dpc' = [dpc EXCEPT ![t] =
                      CASE r.tag = "Some" -> "send"
                        [] r.tag = "Panic" -> "panicked"
                        [] r.tag = "Err" -> "done"
                        [] OTHER -> "check"]
    /\ UNCHANGED <<handlerVars, playerVars, queueVars, renderVars, callbackVars>>

\* A loop that skips an event it does not know and goes on.
DecoderDecodeSkipsUnknown(t) ==
    /\ dpc[t] = "decode"
    /\ LET r == decode_one(EventAt(assets[t], pos[t]), pos[t]) IN
        /\ pos' = [pos EXCEPT ![t] = IF pos[t] <= assets[t].len THEN pos[t] + 1 ELSE pos[t]]
        /\ dframe' = [dframe EXCEPT ![t] = r.frame]
        /\ dpc' = [dpc EXCEPT ![t] = IF r.tag = "Some" THEN "send" ELSE "check"]
    /\ UNCHANGED <<handlerVars, playerVars, queueVars, renderVars, callbackVars>>

\* A loop that ends when the demuxer reports the end of the file.
DecoderDecodeEofExits(t) ==
    /\ dpc[t] = "decode"
    /\ LET r == decode_one(EventAt(assets[t], pos[t]), pos[t]) IN
        /\ pos' = [pos EXCEPT ![t] = IF pos[t] <= assets[t].len THEN pos[t] + 1 ELSE pos[t]]
        /\ dframe' = [dframe EXCEPT ![t] = r.frame]
        /\ dpc' = [dpc EXCEPT ![t] =
                      CASE r.tag = "Some" -> "send"
                        [] r.tag = "Panic" -> "panicked"
                        [] EventAt(assets[t], pos[t]).tag = "Eof" -> "done"
                        [] OTHER -> "check"]
    /\ UNCHANGED <<handlerVars, playerVars, queueVars, renderVars, callbackVars>>

\* player.rs:181  `if let Ok(Some(frame)) = context.decode_one()`
DecoderDecode(t) ==
    /\ dpc[t] = "decode"
    /\ LET r == decode_one(EventAt(assets[t], pos[t]), pos[t]) IN
        /\ pos' = [pos EXCEPT ![t] = IF pos[t] <= assets[t].len THEN pos[t] + 1 ELSE pos[t]]
        /\ dframe' = [dframe EXCEPT ![t] = r.frame]
        /\ dpc' = [dpc EXCEPT ![t] =
                      CASE r.tag = "Some" -> "send"
                        [] r.tag = "Panic" -> "panicked"
                        [] OTHER -> "check"]
    /\ UNCHANGED <<handlerVars, playerVars, queueVars, renderVars, callbackVars>>

\* A send that gives the frame up when the channel is full (try_send).
SendVideoLossy(t, f) ==
    IF VideoRxAlive(t) /\ Len(videoQ[t]) < VideoQueueCapacity
    THEN /\ videoQ' = [videoQ EXCEPT ![t] = Append(@, f)]
         /\ vSent' = [vSent EXCEPT ![t] = Append(@, f)]
         /\ UNCHANGED <<audioQ, aSent, lost>>
    ELSE /\ lost' = [lost EXCEPT ![t] = Append(@, f)]
         /\ UNCHANGED <<videoQ, vSent, audioQ, aSent>>

\* A send on a channel that has no room at all.
SendVideoNoRoom(t, f) ==
    IF VideoRxAlive(t)
    THEN /\ Len(videoQ[t]) < 0
         /\ videoQ' = [videoQ EXCEPT ![t] = Append(@, f)]
         /\ vSent' = [vSent EXCEPT ![t] = Append(@, f)]
         /\ UNCHANGED <<audioQ, aSent, lost>>
    ELSE /\ lost' = [lost EXCEPT ![t] = Append(@, f)]
         /\ UNCHANGED <<videoQ, vSent, audioQ, aSent>>

\* player.rs:183-187  v_s.send(frame) on the bounded channel: waits while
\* the channel is full, fails once the receiver is gone.
SendVideo(t, f) ==
    IF VideoRxAlive(t)
    THEN /\ Len(videoQ[t]) < VideoQueueCapacity
         /\ videoQ' = [videoQ EXCEPT ![t] = Append(@, f)]
         /\ vSent' = [vSent EXCEPT ![t] = Append(@, f)]
         /\ UNCHANGED <<audioQ, aSent, lost>>
    ELSE /\ lost' = [lost EXCEPT ![t] = Append(@, f)]
         /\ UNCHANGED <<videoQ, vSent, audioQ, aSent>>

\* player.rs:188-192  a_s.send(frame) on the unbounded channel
SendAudio(t, f) ==
    IF AudioRxAlive(t)
    THEN /\ audioQ' = [audioQ EXCEPT ![t] = Append(@, f)]
         /\ aSent' = [aSent EXCEPT ![t] = Append(@, f)]
         /\ UNCHANGED <<videoQ, vSent, lost>>
    ELSE /\ lost' = [lost EXCEPT ![t] = Append(@, f)]
         /\ UNCHANGED <<videoQ, vSent, audioQ, aSent>>

\* A match whose arms send to the other queue.
DecoderSendSwapped(t) ==
    /\ dpc[t] = "send"
    /\ IF dframe[t].kind = "Video"
       THEN SendAudio(t, dframe[t])
       ELSE SendVideo(t, dframe[t])
    /\ dpc' = [dpc EXCEPT ![t] = "check"]
    /\ dframe' = [dframe EXCEPT ![t] = NoFrame]
    /\ UNCHANGED <<handlerVars, playerVars, pos, renderVars, callbackVars>>

\* player.rs:182-193  the match on frame.kind
DecoderSend(t) ==
    /\ dpc[t] = "send"
    /\ IF dframe[t].kind = "Video"
       THEN SendVideo(t, dframe[t])
       ELSE SendAudio(t, dframe[t])
    /\ dpc' = [dpc EXCEPT ![t] = "check"]
    /\ dframe' = [dframe EXCEPT ![t] = NoFrame]
    /\ UNCHANGED <<handlerVars, playerVars, pos, renderVars, callbackVars>>

DecoderStep(t) == DecoderCheck(t) \/ DecoderDecode(t) \/ DecoderSend(t)

(***************************************************************************)
(* video.rs: the render thread.  player.rs:173 hands it the session's      *)
(* shared state; the gate of video.rs:67-74 is read on that state.         *)
(***************************************************************************)
\* How the gate reads termination on the shared AtomicI8: a negative value,
\* as in the decoder task's own check, is Stopped.
GateSeesStopped(s) == s < 0

\* video.rs:13-18  PlayerState, read from the shared state: play stores 1
\* (Playing), pause stores 0 (Paused).
PlayerStateOf(s) ==
    IF s = StatePlaying THEN "Playing"
    ELSE IF GateSeesStopped(s) THEN "Stopped"
    ELSE "Paused"

\* A gate that only Stopped closes: Paused falls through to the receive.
RenderGateOpen(t) ==
    /\ rpc[t] = "gate"
    /\ rpc' = [rpc EXCEPT ![t] =
                  IF PlayerStateOf(state[t]) = "Stopped" THEN "exited" ELSE "recv"]
    /\ UNCHANGED <<handlerVars, playerVars, decoderVars, queueVars, rframe,
                   published, paceVars, callbackVars>>

\* video.rs:67-74  Playing falls through to the receive, Paused sleeps and
\* rechecks, Stopped leaves the loop (and drops v_r).
RenderGate(t) ==
    /\ rpc[t] = "gate"
    /\ rpc' = [rpc EXCEPT ![t] =
                  CASE PlayerStateOf(state[t]) = "Playing" -> "recv"
                    [] PlayerStateOf(state[t]) = "Paused" -> "gate"
                    [] OTHER -> "exited"]
    /\ UNCHANGED <<handlerVars, playerVars, decoderVars, queueVars, rframe,
                   published, paceVars, callbackVars>>

\* A receive that keeps waiting when the sender is gone.
RenderRecvWaits(t) ==
    /\ rpc[t] = "recv"
    /\ videoQ[t] # <<>>
    /\ rframe' = [rframe EXCEPT ![t] = Head(videoQ[t])]
    /\ videoQ' = [videoQ EXCEPT ![t] = Tail(@)]
    /\ rpc' = [rpc EXCEPT ![t] = "post"]
    /\ UNCHANGED <<handlerVars, playerVars, decoderVars, audioQ, vSent, aSent,
                   lost, published, paceVars, callbackVars>>

\* video.rs:76  rx.recv(): waits while the queue is empty and the sender
\* lives; fails, and the iteration ends, once the sender is gone.
RenderRecv(t) ==
    /\ rpc[t] = "recv"
    /\ IF videoQ[t] # <<>>
       THEN /\ rframe' = [rframe EXCEPT ![t] = Head(videoQ[t])]
            /\ videoQ' = [videoQ EXCEPT ![t] = Tail(@)]
            /\ rpc' = [rpc EXCEPT ![t] = "post"]
       ELSE /\ ~SendersAlive(t)
            /\ rpc' = [rpc EXCEPT ![t] = "gate"]
            /\ UNCHANGED <<rframe, videoQ>>
    /\ UNCHANGED <<handlerVars, playerVars, decoderVars, audioQ, vSent, aSent,
                   lost, published, paceVars, callbackVars>>

\* video.rs:84  sleep_time = Duration::new(0, (pts - prev) as u32)
SleepTime(prev, pts) == (pts - prev) % U32Nanos

\* video.rs:81-94  the sleep before the render
PacingSleep(prev, pts, el) ==
    IF prev # NoPts /\ pts > prev /\ el < SleepTime(prev, pts)
    THEN SleepTime(prev, pts) - el
    ELSE 0

\* video.rs:77-96  the pacing of the frame received: now.elapsed() is read
\* when there is a prev_pts, the thread sleeps, and prev_pts becomes the
\* frame's pts.
RenderPace(t, el) ==
    LET pts == PtsAt(assets[t], rframe[t].id) IN
        /\ elapsed' = [elapsed EXCEPT ![t] = IF prev_pts[t] = NoPts THEN 0 ELSE el]
        /\ slept' = [slept EXCEPT ![t] = PacingSleep(prev_pts[t], pts, el)]
        /\ prev_pts' = [prev_pts EXCEPT ![t] = pts]

\* A render that goes straight to the next receive, past the gate.
RenderPostSkipsGate(t) ==
    /\ rpc[t] = "post"
    /\ \E el \in host.elapsed : RenderPace(t, el)
    /\ published' = [published EXCEPT ![t] = Append(@, rframe[t])]
    /\ rframe' = [rframe EXCEPT ![t] = NoFrame]
    /\ rpc' = [rpc EXCEPT ![t] = "recv"]
    /\ UNCHANGED <<handlerVars, playerVars, decoderVars, queueVars, callbackVars>>

\* video.rs:77-117  pacing, conversion and texture.post_frame_rgba
RenderPost(t) ==
    /\ rpc[t] = "post"
    /\ \E el \in host.elapsed : RenderPace(t, el)
    /\ published' = [published EXCEPT ![t] = Append(@, rframe[t])]
    /\ rframe' = [rframe EXCEPT ![t] = NoFrame]
    /\ rpc' = [rpc EXCEPT ![t] = "gate"]
    /\ UNCHANGED <<handlerVars, playerVars, decoderVars, queueVars, callbackVars>>

RenderStep(t) == RenderGate(t) \/ RenderRecv(t) \/ RenderPost(t)

(***************************************************************************)
(* audio.rs: the fill callback of the output stream.                       *)
(***************************************************************************)
Min(a, b) == IF a < b THEN a ELSE b

\* A copy that reads the frame from its start, not from in_off.
ScaledSliceFromStart(data, off, len, v) == [i \in 1..len |-> Scale(data[i], v)]

\* audio.rs:146-149  the samples in_off .. in_off + len of the frame, scaled
ScaledSlice(data, off, len, v) == [i \in 1..len |-> Scale(data[off + i], v)]

\* A callback that keeps the volume it read when the stream was built.
CallbackBeginStaleVolume(t, n) ==
    /\ cpc[t] = "idle"
    /\ audio[t] = "started"
    /\ cpc' = [cpc EXCEPT ![t] = "loop"]
    /\ out_len' = [out_len EXCEPT ![t] = n]
    /\ buffer' = [buffer EXCEPT ![t] = <<>>]
    /\ UNCHANGED <<handlerVars, playerVars, decoderVars, queueVars, renderVars,
                   cbVolume, frame, in_off, emitted>>

\* audio.rs:129-131  the callback is entered: the volume is read, out_len is
\* the buffer's length, out_off is 0.
CallbackBegin(t, n) ==
    /\ cpc[t] = "idle"
    /\ audio[t] = "started"
    /\ cpc' = [cpc EXCEPT ![t] = "loop"]
    /\ cbVolume' = [cbVolume EXCEPT ![t] = volume[t]]
    /\ out_len' = [out_len EXCEPT ![t] = n]
    /\ buffer' = [buffer EXCEPT ![t] = <<>>]
    /\ UNCHANGED <<handlerVars, playerVars, decoderVars, queueVars, renderVars,
                   frame, in_off, emitted>>

\* audio.rs:143-144
CopyLen(outLen, inLen) == Min(outLen, inLen)

\* audio.rs:155-157  the frame is released when it has been consumed
FrameDone(inLen, len) == inLen = len

\* audio.rs:139-158  copy from the partial frame `f` at offset `off`
CallbackCopy(t, f, off) ==
    LET samples == Len(f.data)
        in_len == samples - off
        len == CopyLen(out_len[t], in_len)
    IN  /\ buffer' = [buffer EXCEPT ![t] = @ \o ScaledSlice(f.data, off, len, cbVolume[t])]
        /\ in_off' = [in_off EXCEPT ![t] = off + len]
        /\ out_len' = [out_len EXCEPT ![t] = @ - len]
        /\ frame' = [frame EXCEPT ![t] = IF FrameDone(in_len, len) THEN NoFrame ELSE f]

\* audio.rs:132-160  one iteration of `while out_len > 0`: rx.recv() when
\* there is no partial frame (it waits while the queue is empty and the
\* sender lives, and fails once the sender is gone), then the copy.
CallbackIter(t) ==
    /\ cpc[t] = "loop"
    /\ out_len[t] > 0
    /\ IF frame[t] # NoFrame
       THEN /\ CallbackCopy(t, frame[t], in_off[t])
            /\ UNCHANGED audioQ
       ELSE IF audioQ[t] # <<>>
       THEN /\ CallbackCopy(t, Head(audioQ[t]), 0)
            /\ audioQ' = [audioQ EXCEPT ![t] = Tail(@)]
       ELSE /\ ~SendersAlive(t)
            /\ UNCHANGED <<audioQ, buffer, in_off, out_len, frame>>
    /\ UNCHANGED <<handlerVars, playerVars, decoderVars, videoQ, vSent, aSent,
                   lost, renderVars, cpc, cbVolume, emitted>>

\* audio.rs:132,161  out_len is 0: the closure returns
CallbackReturn(t) ==
    /\ cpc[t] = "loop"
    /\ out_len[t] = 0
    /\ cpc' = [cpc EXCEPT ![t] = "idle"]
    /\ emitted' = [emitted EXCEPT ![t] = @ + Len(buffer[t])]
    /\ UNCHANGED <<handlerVars, playerVars, decoderVars, queueVars, renderVars,
                   cbVolume, out_len, buffer, frame, in_off>>

CallbackStep(t) ==
    \/ \E n \in 1..MaxBuf : CallbackBegin(t, n)
    \/ CallbackIter(t)
    \/ CallbackReturn(t)

(***************************************************************************)
(* Specifications.                                                         *)
(***************************************************************************)
OneAsset(a) == [t \in Textures |-> IF t = 1 THEN a ELSE NoAsset]

Workers == \E t \in Textures : DecoderStep(t) \/ RenderStep(t)

Device == \E t \in Textures : CallbackStep(t)

\* The commands that move the playback state, naming the textures `ids`.
Control(ids) ==
    \/ \E t \in Textures, o \in CreateOutcomes : Create(t, o)
    \/ \E t \in ids, d \in DeviceResults : Play(t, d)
    \/ \E t \in ids, d \in DeviceResults : Pause(t, d)
    \/ PluginDrop

\* The pipeline: one session playing one of the assets, with the two worker
\* threads, the audio device and the commands that move the playback state.
Init == \E a \in {LongVideoAsset, MixedAsset, BrokenAsset} : InitWith(OneAsset(a))

Next == Workers \/ Device \/ Control({1})

Spec == Init /\ [][Next]_vars

\* The threads are scheduled by the operating system: a step of a worker
\* thread that stays possible is eventually taken.  The audio device shares
\* only the audio queue with the workers, and the decoder's send on that
\* queue never waits, so the fair specification leaves the device idle.
Fairness ==
    \A t \in Textures :
        /\ WF_vars(DecoderStep(t))
        /\ WF_vars(RenderStep(t))

FairNext == Workers \/ Control({1})

FairSpec == Init /\ [][FairNext]_vars /\ Fairness

\* The audio path: one session on the asset with audio, with the volume
\* changed at any time.
InitAudio == InitWith(OneAsset(AudioAsset))

AudioNext ==
    \/ Workers
    \/ Device
    \/ Control({1})
    \/ \E v \in Volumes : SetVolume(1, v)

SpecAudio == InitAudio /\ [][AudioNext]_vars

\* The command surface: two sessions and every method, on any texture id.
InitPlugin == InitWith([t \in Textures |-> IF t = 1 THEN TinyAsset ELSE EmptyAsset])

PluginNext ==
    \/ Workers
    \/ Control(Textures)
    \/ \E t \in Textures : SetVolume(t, <<1, 2>>)
    \/ \E t \in Textures, m \in QueryMethods \cup OtherMethods : OtherCall(m, t)

SpecPlugin == InitPlugin /\ [][PluginNext]_vars

\* Construction: one small asset whose audio stream has any of the infos
\* below, on a device that supports any of the formats below.
DeviceFormats ==
    { StereoFormat,
      [min_sample_rate |-> 12000, max_sample_rate |-> 12000, channels |-> 1,
       data_type |-> "I16"],
      [min_sample_rate |-> 11025, max_sample_rate |-> 24000, channels |-> 2,
       data_type |-> "F32"] }

DeviceInfos ==
    { [rate |-> r, channels |-> c] :
          r \in {2000, 11025, 12000, 24000, U32Rate + 12000}, c \in {0, 1, 2} }

InitDevice ==
    \E fs \in SUBSET DeviceFormats, info \in DeviceInfos :
        InitIn(OneAsset([TinyAsset EXCEPT !.audio = info]),
               [formats |-> fs, elapsed |-> {0}], NoProbe)

DeviceNext == Workers \/ Control({1})

SpecDevice == InitDevice /\ [][DeviceNext]_vars

\* The scaling alone: a sample is scaled by a volume as the fill callback
\* does it, and the result is scaled by the inverse volume.
ProbeSamples ==
    {I16Min, -20000, -101, -100, -5, -1, 0, 1, 5, 100, 101, 999, 20000, I16Max}

ProbeVolumes ==
    { <<1, 1>>, <<-1, 1>>, <<2, 1>>, <<-3, 1>>, <<3, 2>>, <<1, 2>>, <<1, 3>>,
      <<1, 1000>> }

InitScale ==
    \E s \in ProbeSamples, v \in ProbeVolumes :
        InitIn([t \in Textures |-> NoAsset], QuietHost,
               [s |-> s, v |-> v, done |-> FALSE, back |-> 0])

ScaleRoundTrip ==
    /\ ~probe.done
    /\ probe' = [probe EXCEPT !.done = TRUE,
                              !.back = Scale(Scale(probe.s, probe.v), Inverse(probe.v))]
    /\ UNCHANGED <<host, pixel, shape, assets, streams, nextTexture, plugin, lastCall,
                   disposed, playerVars, decoderVars, queueVars, renderVars,
                   callbackVars>>

ScaleNext == ScaleRoundTrip

SpecScale == InitScale /\ [][ScaleNext]_vars

\* video.rs:108  the index read in the luma plane
LumaIndex(cx, cy, y_stride) == cy * y_stride + cx

\* video.rs:109-110  the index read in each chroma plane:
\* `cy / 2 * width / 2 + cx / 2`, evaluated from the left
ChromaIndex(cx, cy, width) == (((cy \div 2) * width) \div 2) + (cx \div 2)

\* The conversion alone: frames of 1 to 5 by 1 to 4 pixels, whose planes
\* have rows that are packed or padded; a chroma row holds one sample for
\* every two pixels of the picture, rounded up.
MaxWidth == 5
MaxHeight == 4
Paddings == {0, 1, 3}

ChromaWidth(width) == (width + 1) \div 2

InitPixels ==
    \E w \in 1..MaxWidth, h \in 1..MaxHeight, yp \in Paddings, cp \in Paddings :
        InitOf([t \in Textures |-> NoAsset], QuietHost, NoProbe,
               [NoPixel EXCEPT !.width = w, !.height = h,
                               !.y_stride = w + yp,
                               !.c_stride = ChromaWidth(w) + cp])

\* video.rs:106-115  RgbaImage::from_fn calls the closure for every (x, y),
\* row by row; the closure reads one sample of each plane.
ConvertPixel ==
    /\ pixel.n < pixel.width * pixel.height
    /\ LET cx == pixel.n % pixel.width
           cy == pixel.n \div pixel.width
       IN  pixel' = [pixel EXCEPT !.n = @ + 1, !.x = cx, !.y = cy,
                                  !.y_i = LumaIndex(cx, cy, pixel.y_stride),
                                  !.u_i = ChromaIndex(cx, cy, pixel.width),
                                  !.v_i = ChromaIndex(cx, cy, pixel.width)]
    /\ UNCHANGED <<host, probe, shape, assets, streams, nextTexture, plugin, lastCall,
                   disposed, playerVars, decoderVars, queueVars, renderVars,
                   callbackVars>>

PixelsNext == ConvertPixel

SpecPixels == InitPixels /\ [][PixelsNext]_vars

\* Pacing: a video asset whose frames are 40 ms apart, at the same time,
\* 1.04 s apart, 2^32 ns + 40 ms apart and out of order, rendered on a
\* machine where 0, 10 ms, 50 ms or 5 s pass between two renders.
PacingPts == <<0, 78125, 78125, 2109375, 10576108, 10576098>>

PacingAsset ==
    [Asset(<<Ev("Video", <<>>)>>, Len(PacingPts), "Eof") EXCEPT !.pts = PacingPts]

PacingElapsed == {0, 19531, 97656, 9765625}

InitPacing ==
    InitIn(OneAsset(PacingAsset),
           [formats |-> {StereoFormat}, elapsed |-> PacingElapsed], NoProbe)

PacingNext == Workers \/ Control({1})

SpecPacing == InitPacing /\ [][PacingNext]_vars

(***************************************************************************)
(* Helpers of the properties.                                              *)
(***************************************************************************)
RECURSIVE Flatten(_)
\* the samples of a sequence of frames, concatenated
Flatten(fs) == IF fs = <<>> THEN <<>> ELSE Head(fs).data \o Flatten(Tail(fs))

Ids(fs) == [i \in 1..Len(fs) |-> fs[i].id]

Range(q) == {q[i] : i \in 1..Len(q)}

Increasing(q) == \A i, j \in 1..Len(q) : i < j => q[i] < q[j]

IsPrefix(a, b) == Len(a) <= Len(b) /\ SubSeq(b, 1, Len(a)) = a

IsSuffix(a, b) == Len(a) <= Len(b) /\ SubSeq(b, Len(b) - Len(a) + 1, Len(b)) = a

\* the packets read so far that decode_one turned into a frame of `kind`
Decoded(t, kind) ==
    {p \in 1..(pos[t] - 1) : p <= assets[t].len /\ EventAt(assets[t], p).tag = kind}

InHand(t, kind) == IF dframe[t].kind = kind THEN {dframe[t].id} ELSE {}

LostOf(t, kind) == {f.id : f \in {g \in Range(lost[t]) : g.kind = kind}}

TypeOK ==
    /\ streams \subseteq Textures
    /\ \A t \in Textures :
        /\ state[t] \in {StatePaused, StatePlaying, StateTerminating, StateTerminated}
        /\ Len(videoQ[t]) <= VideoQueueCapacity

(***************************************************************************)
(* The audio fill callback.                                                *)
(***************************************************************************)
\* The callback has output left to fill, no partial frame, and the queue
\* yields nothing.
Starved(t) ==
    /\ cpc[t] = "loop"
    /\ out_len[t] > 0
    /\ frame[t] = NoFrame
    /\ audioQ[t] = <<>>

Silence(n) == [i \in 1..n |-> 0]

\* C1: whenever the partial-frame cursor is empty and the audio queue yields
\* no frame, the callback can complete: its next step fills the rest of the
\* output buffer with silence, after which nothing is left to fill.
C1_SilenceWhenStarved ==
    \A t \in Textures :
        Starved(t) =>
            ENABLED (/\ CallbackStep(t)
                     /\ out_len'[t] = 0
                     /\ buffer'[t] = buffer[t] \o Silence(out_len[t]))

\* the samples of the frames the audio queue accepted, in queue order
Stream(t) == Flatten(aSent[t])

\* the samples of the partial frame not yet consumed
Remaining(t) ==
    IF frame[t] = NoFrame THEN <<>>
    ELSE SubSeq(frame[t].data, in_off[t] + 1, Len(frame[t].data))

\* the samples written so far, by the callbacks that returned and by the
\* one that is running
Written(t) == IF cpc[t] = "loop" THEN emitted[t] + Len(buffer[t]) ELSE emitted[t]

\* C2: the samples written by successive callbacks are the queued frames'
\* samples in queue order, each scaled by the volume the callback read: the
\* output buffer is the window of the stream that starts where the previous
\* callbacks stopped, and the samples not yet written are exactly the rest
\* of the partial frame followed by the queued frames (none duplicated,
\* none skipped).
C2_CursorExactlyOnce ==
    \A t \in Textures :
        /\ Written(t) <= Len(Stream(t))
        /\ \A i \in 1..Len(buffer[t]) :
              buffer[t][i] =
                 Scale(Stream(t)[Written(t) - Len(buffer[t]) + i], cbVolume[t])
        /\ SubSeq(Stream(t), Written(t) + 1, Len(Stream(t)))
              = Remaining(t) \o Flatten(audioQ[t])

\* A callback that runs after an earlier one returned in the middle of a
\* frame, has crossed a frame boundary, and scales by a volume other than 1.
C2_Witness ==
    /\ cpc[1] = "loop"
    /\ emitted[1] = 1
    /\ Len(buffer[1]) = 2
    /\ buffer[1] = <<-100, 15000>>
    /\ cbVolume[1] = <<1, 2>>

\* C11: set_volume(v) stores v as it is; a callback that begins afterwards
\* reads the volume stored at that moment, keeps it until it returns, and
\* every sample it writes is the next sample of the stream scaled by it.
C11_VolumeAppliesNext ==
    [][\A t \in streams :
          /\ \A v \in Volumes : SetVolume(t, v) => volume'[t] = v
          /\ (cpc[t] = "idle" /\ cpc'[t] = "loop") => cbVolume'[t] = volume[t]
          /\ cpc[t] = "loop" =>
                /\ cpc'[t] = "loop" => cbVolume'[t] = cbVolume[t]
                /\ \E k \in 0..Min(MaxBuf, Len(Stream(t)) - Written(t)) :
                      buffer'[t] = buffer[t] \o
                          [i \in 1..k |-> Scale(Stream(t)[Written(t) + i], cbVolume[t])]]_vars

\* After setVolume(-3) has returned a callback has begun and has written the
\* first two samples, scaled by -3.
C11_Witness ==
    /\ lastCall = Call("setVolume", 1, "Null")
    /\ cpc[1] = "loop"
    /\ cbVolume[1] = <<-3, 1>>
    /\ buffer[1] = <<-300, 600>>

Abs(x) == IF x < 0 THEN -x ELSE x

\* C15 as stated: for every volume other than 0 and every sample, scaling
\* by the volume and then by its inverse gives a value within 1 of the
\* sample.
C15_RoundTripWithinOne ==
    probe.done => Abs(probe.back - probe.s) <= 1

\* C15, amended: for every volume of magnitude 1 or more and every sample
\* whose product with the volume is within the 16-bit range, scaling by the
\* volume and then by its inverse gives a value within 1 of the sample.
C15_RoundTripLoud ==
    (/\ probe.done
     /\ Abs(probe.v[1]) >= probe.v[2]
     /\ probe.s * probe.v[1] <= I16Max * probe.v[2]
     /\ probe.s * probe.v[1] >= I16Min * probe.v[2]) =>
        Abs(probe.back - probe.s) <= 1

\* 101 scaled by 3/2 is 151, and 151 scaled by 2/3 is 100.
C15_Witness ==
    /\ probe.done
    /\ probe.s = 101
    /\ probe.v = <<3, 2>>
    /\ probe.back = 100

(***************************************************************************)
(* The pixel conversion.                                                   *)
(***************************************************************************)
\* C21: for every pixel (x, y) of a frame of any width and height, rows
\* padded or not, the luma sample is read at y * luma_stride + x and the U
\* and V samples at (y / 2) * chroma_stride + x / 2 of their planes.
C21_PlaneAddressing ==
    pixel.n > 0 =>
        /\ pixel.y_i = pixel.y * pixel.y_stride + pixel.x
        /\ pixel.u_i = (pixel.y \div 2) * pixel.c_stride + (pixel.x \div 2)
        /\ pixel.v_i = (pixel.y \div 2) * pixel.c_stride + (pixel.x \div 2)

(***************************************************************************)
(* The video queue.                                                        *)
(***************************************************************************)
\* C3: the video queue never holds more than its capacity; when it is full
\* and the renderer lives, the decoder's send cannot complete; and no video
\* frame is lost while the renderer lives: every video frame decoded is in
\* the decoder's hand, was accepted by the queue, or was refused after the
\* render thread had gone.
C3_BoundedNoDrop ==
    \A t \in Textures :
        /\ Len(videoQ[t]) <= VideoQueueCapacity
        /\ (/\ dpc[t] = "send"
            /\ dframe[t].kind = "Video"
            /\ Len(videoQ[t]) = VideoQueueCapacity
            /\ VideoRxAlive(t)) => ~ENABLED DecoderSend(t)
        /\ LostOf(t, "Video") # {} => ~VideoRxAlive(t)
        /\ Decoded(t, "Video")
              = Range(Ids(vSent[t])) \cup LostOf(t, "Video") \cup InHand(t, "Video")

\* The queue is full, the decoder holds the next video frame, the renderer
\* lives.
C3_Witness ==
    /\ Len(videoQ[1]) = VideoQueueCapacity
    /\ dpc[1] = "send"
    /\ dframe[1].kind = "Video"
    /\ VideoRxAlive(1)

(***************************************************************************)
(* Pacing.                                                                 *)
(***************************************************************************)
Max0(x) == IF x > 0 THEN x ELSE 0

\* pts of the frame rendered last minus pts of the frame rendered before it
LastDelta(t) ==
    LET n == Len(published[t]) IN
        PtsAt(assets[t], published[t][n].id) - PtsAt(assets[t], published[t][n - 1].id)

\* C16: a frame that has a predecessor and is not earlier than it is
\* rendered after a sleep of max(0, pts_delta - elapsed), whatever the
\* delta.
C16_SleepIsDeltaMinusElapsed ==
    \A t \in Textures :
        (Len(published[t]) >= 2 /\ LastDelta(t) >= 0) =>
            slept[t] = Max0(LastDelta(t) - elapsed[t])

\* C17: the first frame of the session is rendered without a sleep, and so
\* is the first frame after a resume: a frame the render thread holds at
\* the moment play() resumes the session is rendered next, and no time the
\* clock can show makes the thread sleep before it.
C17_FirstFrameUnpaced ==
    [][\A t \in streams :
          /\ (published[t] = <<>> /\ published'[t] # <<>>) => slept'[t] = 0
          /\ (/\ state[t] = StatePaused
              /\ state'[t] = StatePlaying
              /\ rpc'[t] = "post") =>
                 \A el \in host.elapsed :
                     PacingSleep(prev_pts'[t], PtsAt(assets[t], rframe'[t].id), el) = 0]_vars

C23_TerminationOneWay ==
    [][\A t \in Textures :
          /\ state[t] = StateTerminating =>
                state'[t] \in {StateTerminating, StateTerminated}
          /\ state[t] = StateTerminated => state'[t] = StateTerminated
          /\ (state'[t] = StateTerminated /\ state[t] # StateTerminated) =>
                /\ state[t] = StateTerminating
                /\ dpc[t] = "check"
                /\ dpc'[t] = "done"]_vars

\* A session that had played and rendered was dropped, and its decoder task
\* has written Terminated and left.
C23_Witness ==
    /\ state[1] = StateTerminated
    /\ dpc[1] = "done"
    /\ published[1] # <<>>
    /\ audio[1] = "dropped"

(***************************************************************************)
(* The command surface.                                                    *)
(***************************************************************************)
\* C6: dispose() for an existing session returns success and moves the
\* session's state to Terminating, and no later play() or pause() brings
\* the state back.
C6_DisposeTerminates ==
    \A t \in streams :
        /\ (lastCall.method = "dispose" /\ lastCall.id = t) =>
              (lastCall.result = "Null" /\ state[t] = StateTerminating)
        /\ t \in disposed => state[t] < 0

\* C7 as stated: while the state is Paused the renderer removes no frame
\* from the video queue and publishes nothing.
C7_PausedNeverConsumes ==
    [][\A t \in streams :
          state[t] = StatePaused =>
              /\ IsPrefix(videoQ[t], videoQ'[t])
              /\ published'[t] = published[t]]_vars

\* C7, amended: while the state is Paused and the renderer is at its gate,
\* the renderer removes no frame and publishes nothing, and it stays at the
\* gate for as long as the state is Paused.
C7_PausedAtGate ==
    [][\A t \in streams :
          (state[t] = StatePaused /\ rpc[t] = "gate") =>
              /\ IsPrefix(videoQ[t], videoQ'[t])
              /\ published'[t] = published[t]
              /\ state'[t] = StatePaused => rpc'[t] = "gate"]_vars

\* Paused after some frames were published, the renderer at its gate and
\* frames waiting in the queue.
C7_Witness ==
    /\ state[1] = StatePaused
    /\ rpc[1] = "gate"
    /\ published[1] # <<>>
    /\ Len(videoQ[1]) >= 2

\* C8: a play() that succeeds leaves the state Playing and the audio device
\* started; a pause() that succeeds leaves the state Paused and the device
\* stopped.
C8_PlayPauseEffect ==
    \A t \in Textures :
        (lastCall.id = t /\ lastCall.result = "Null") =>
            /\ lastCall.method = "play" =>
                  (state[t] = StatePlaying /\ audio[t] = "started")
            /\ lastCall.method = "pause" =>
                  (state[t] = StatePaused /\ audio[t] = "stopped")

\* A pause() has succeeded on a session that was playing (it has published).
C8_Witness ==
    /\ lastCall = Call("pause", 1, "Null")
    /\ published[1] # <<>>
    /\ state[1] = StatePaused

\* C9: when the device fails to start or stop, the call returns the device
\* error and the state (and the device) stay as they were.
C9_DeviceErrorKeepsState ==
    [][\A t \in streams :
          (Play(t, "DeviceError") \/ Pause(t, "DeviceError")) =>
              /\ lastCall'.result = "DeviceError"
              /\ state' = state
              /\ audio' = audio]_vars

\* A pause() has failed on a playing session, which is still playing.
C9_Witness ==
    /\ lastCall = Call("pause", 1, "DeviceError")
    /\ state[1] = StatePlaying
    /\ audio[1] = "started"

\* C14: on a registered session position() returns 0 and setLooping() and
\* seekTo() return Null, and the call changes nothing of the session: not
\* its state, volume or audio device, not the queues, not the cursors of
\* the decoder, the render thread and the fill callback.
C14_StubsChangeNothing ==
    [][(/\ lastCall' # lastCall
        /\ lastCall'.method \in QueryMethods
        /\ lastCall'.id \in streams) =>
           /\ lastCall'.result =
                  (IF lastCall'.method = "position" THEN "I64(0)" ELSE "Null")
           /\ UNCHANGED <<state, volume, audio, videoQ, audioQ, dpc, pos, dframe,
                          rpc, rframe, published, prev_pts, frame, in_off>>]_vars

\* position() has returned 0 on a session that is playing and has rendered.
C14_Witness ==
    /\ lastCall = Call("position", 1, "I64(0)")
    /\ state[1] = StatePlaying
    /\ published[1] # <<>>

\* what belongs to the session of texture u
SessionOf(u) ==
    <<state[u], audio[u], volume[u], shape[u], dpc[u], pos[u], dframe[u],
      videoQ[u], audioQ[u], rpc[u], rframe[u], published[u], prev_pts[u],
      cpc[u], frame[u], in_off[u]>>

\* a command of the six that name a session, called with texture id t
SessionCommand(t) ==
    \/ \E d \in DeviceResults : Play(t, d) \/ Pause(t, d)
    \/ \E v \in Volumes : SetVolume(t, v)
    \/ \E m \in QueryMethods : OtherCall(m, t)

\* C22: a command that names a texture id with no registered session
\* returns the invalid-texture-id error and changes no session; a command
\* that names a registered id does not return that error and changes no
\* session but the one registered under the id; neither changes which ids
\* are registered.
C22_OnlyTheNamedSession ==
    [][\A t \in Textures :
          SessionCommand(t) =>
              /\ lastCall'.id = t
              /\ streams' = streams
              /\ IF t \in streams
                 THEN /\ lastCall'.result # "InvalidTextureId"
                      /\ \A u \in Textures \ {t} : SessionOf(u)' = SessionOf(u)
                 ELSE /\ lastCall'.result = "InvalidTextureId"
                      /\ \A u \in Textures : SessionOf(u)' = SessionOf(u)]_vars

\* Two sessions are registered, the first plays at full volume, and the
\* volume of the second has been set.
C22_Witness ==
    /\ streams = {1, 2}
    /\ lastCall = Call("setVolume", 2, "Null")
    /\ volume[2] = <<1, 2>>
    /\ volume[1] = <<1, 1>>
    /\ state[1] = StatePlaying

(***************************************************************************)
(* Construction.                                                           *)
(***************************************************************************)
\* C12: when create fails the error is what the caller gets, the id is not
\* registered, and no thread and no audio stream of the session exists.
C12_FailedCreateLeavesNothing ==
    /\ lastCall.method = "create" =>
          /\ lastCall.result \in (CreateOutcomes \ {"ok"}) \cup {"textureId"}
          /\ lastCall.result = "textureId" <=> lastCall.id \in streams
    /\ \A t \in Textures \ streams :
          /\ dpc[t] = "none"
          /\ rpc[t] = "none"
          /\ cpc[t] = "none"
          /\ audio[t] = "none"

\* create has failed because the device has no matching format.
C12_Witness ==
    /\ lastCall = Call("create", 1, "FormatNotSupported")
    /\ nextTexture = 2
    /\ streams = {}

\* the format of the stream itself: its rate, its channel count, 16 bits
StreamFormat(info) ==
    [channels |-> info.channels, sample_rate |-> info.rate, data_type |-> "I16"]

\* C13: the audio renderer is constructed exactly when the device supports
\* the stream's own rate and channel count with 16-bit samples, the device
\* is then opened with that rate and channel count, and in the other case
\* the format is reported as not supported.
C13_ExactFormatOnly ==
    \A t \in Textures :
        (lastCall.method = "create" /\ lastCall.id = t) =>
            /\ lastCall.result = "textureId" =>
                  /\ Supported(host.formats, StreamFormat(assets[t].audio))
                  /\ shape[t] = ShapeOf(StreamFormat(assets[t].audio))
            /\ lastCall.result = "FormatNotSupported" =>
                  ~Supported(host.formats, StreamFormat(assets[t].audio))

(***************************************************************************)
(* Failures in the decoder task.                                           *)
(***************************************************************************)
\* the event the decoder task reads next
NextEvent(t) == EventAt(assets[t], pos[t])

\* the step in which the decoder task of t takes its decode_one
Decodes(t) == dpc[t] = "decode" /\ dpc'[t] # "decode"

QueuesKept(t) ==
    /\ videoQ'[t] = videoQ[t] /\ audioQ'[t] = audioQ[t]
    /\ vSent'[t] = vSent[t] /\ aSent'[t] = aSent[t]

\* the ids of the frames the two queues have accepted
Routed(t) == Range(Ids(vSent[t])) \cup Range(Ids(aSent[t]))

\* C18: an iteration in which the demuxer or the decoder fails enqueues
\* nothing and is followed by the next iteration; and the frames that come
\* after the failures are routed, unless termination is requested first.
C18_FailureDoesNotStop ==
    /\ [][\A t \in streams :
            (Decodes(t) /\ NextEvent(t).tag \in {"DemuxErr", "DecodeErr"}) =>
                /\ dpc'[t] = "check"
                /\ pos'[t] = pos[t] + 1
                /\ dframe'[t] = NoFrame
                /\ QueuesKept(t)]_vars
    /\ \A t \in Textures :
          (assets[t] = MixedAsset /\ t \in streams /\ pos[t] = 7)
              ~> (state[t] < 0 \/ {7, 10} \subseteq Routed(t))

\* The frames after the demux error (packet 6) and after the decode error
\* (packet 9) have been routed while the session lives.
C18_Witness ==
    /\ assets[1] = MixedAsset
    /\ {7, 10} \subseteq Routed(1)
    /\ state[1] >= 0

\* C19: for a packet of a stream without a decoder decode_one returns
\* neither a frame nor an error, nothing is enqueued, and the decoder task
\* goes on with the next packet.
C19_UnmappedDropped ==
    [][\A t \in streams :
          (Decodes(t) /\ NextEvent(t).tag = "Skip") =>
              /\ decode_one(NextEvent(t), pos[t]).tag = "None"
              /\ dpc'[t] = "check"
              /\ pos'[t] = pos[t] + 1
              /\ dframe'[t] = NoFrame
              /\ QueuesKept(t)]_vars

\* The unmapped packet (packet 3) was dropped and the packet after it was
\* routed.
C19_Witness ==
    /\ assets[1] = MixedAsset
    /\ pos[1] > 4
    /\ 4 \in Routed(1)
    /\ ~(3 \in Routed(1))

\* C20: an event the decoder task does not know ends the task, and from
\* then on neither queue accepts a frame.
C20_UnsupportedStops ==
    [][\A t \in streams :
          /\ (Decodes(t) /\ NextEvent(t).tag = "Unsupported") => dpc'[t] = "panicked"
          /\ dpc[t] = "panicked" =>
                /\ dpc'[t] = "panicked"
                /\ vSent'[t] = vSent[t] /\ aSent'[t] = aSent[t]
                /\ IsSuffix(videoQ'[t], videoQ[t])
                /\ IsSuffix(audioQ'[t], audioQ[t])]_vars

\* The task has ended on the unknown event after it had routed frames, and
\* the session is still playing.
C20_Witness ==
    /\ dpc[1] = "panicked"
    /\ vSent[1] # <<>> /\ aSent[1] # <<>>
    /\ state[1] = StatePlaying

(***************************************************************************)
(* Publishing and the end of the file.                                     *)
(***************************************************************************)
\* the frame the render thread has received and not yet published
Held(t) == IF rframe[t] = NoFrame THEN <<>> ELSE <<rframe[t]>>

\* every packet of the file has been read and every frame has been sent:
\* the demuxer has only the end of the file to report
AtEof(t) ==
    /\ t \in streams
    /\ assets[t].tail = "Eof"
    /\ pos[t] > assets[t].len
    /\ dframe[t] = NoFrame

\* C24: the frames published are, in the order of decoding and each once,
\* the first of the frames the video queue accepted, the rest being the
\* frame the renderer holds and the queue; the decoder task reads the end
\* of the file as "no frame" and goes on polling, and leaves its loop only
\* on a negative state; and once the end of the file is reached the frames
\* queued are all published, unless the state stops being Playing.
C24_OrderedAndDrained ==
    /\ [](\A t \in Textures :
             /\ vSent[t] = published[t] \o Held(t) \o videoQ[t]
             /\ Increasing(Ids(published[t])))
    /\ [][\A t \in streams :
             /\ (Decodes(t) /\ NextEvent(t).tag = "Eof") =>
                     (dpc'[t] = "check" /\ pos'[t] = pos[t] /\ QueuesKept(t))
             /\ (dpc[t] # "done" /\ dpc'[t] = "done") => state[t] < 0]_vars
    /\ \A t \in Textures :
          AtEof(t) ~>
              (state[t] # StatePlaying \/ (AtEof(t) /\ published[t] = vSent[t]))

\* Every frame of the long asset has been published while the session
\* plays, and the decoder task is still polling at the end of the file.
C24_Witness ==
    /\ assets[1] = LongVideoAsset
    /\ AtEof(1)
    /\ Len(published[1]) = LongLen
    /\ state[1] = StatePlaying
    /\ dpc[1] = "decode"

\* the frames the render thread can still take from the queue, and the
\* frames it can still publish, without reading the state again
TakeBudget(t) == IF rpc[t] = "recv" THEN 1 ELSE 0
PublishBudget(t) == IF rpc[t] \in {"recv", "post"} THEN 1 ELSE 0

\* C25: the renderer reads the state only at its gate.  In a step that
\* leaves the state Paused, the frames taken from the queue plus those that
\* can still be taken do not grow, nor do the frames published plus those
\* that can still be published, and each budget is at most one: from the
\* moment pause() has returned until the state changes again, at most one
\* frame is taken and at most one is published, the one whose receive was
\* under way; and a renderer at its gate stays there.
C25_AtMostOneAfterPause ==
    [][\A t \in streams :
          (state[t] = StatePaused /\ state'[t] = StatePaused) =>
              /\ Len(published'[t]) + Len(Held(t))' + TakeBudget(t)'
                    <= Len(published[t]) + Len(Held(t)) + TakeBudget(t)
              /\ Len(published'[t]) + PublishBudget(t)'
                    <= Len(published[t]) + PublishBudget(t)
              /\ IsPrefix(published[t], published'[t])
              /\ rpc[t] = "gate" => rpc'[t] = "gate"]_vars

\* pause() has returned while the renderer holds a frame it had received;
\* frames were published before, and more are queued.
C25_Witness ==
    /\ lastCall = Call("pause", 1, "Null")
    /\ state[1] = StatePaused
    /\ rpc[1] = "post"
    /\ published[1] # <<>>
    /\ Len(videoQ[1]) >= 2

(***************************************************************************)
(* Blocking.                                                               *)
(***************************************************************************)
\* the decoder task waits in its send
DecoderBlocked(t) == dpc[t] = "send" /\ ~ENABLED DecoderSend(t)

\* the render thread waits in its receive
RenderBlocked(t) == rpc[t] = "recv" /\ ~ENABLED RenderRecv(t)

\* the fill callback waits in its receive
CallbackBlocked(t) == cpc[t] = "loop" /\ out_len[t] > 0 /\ ~ENABLED CallbackIter(t)

\* C26: while the state is Playing and the demuxer has packets left, the
\* decoder task, the render thread and the fill callback are never all
\* waiting: one of the three can take a step, and of the two that share the
\* video queue one can, since the decoder waits only on a full queue and
\* the renderer only on an empty one.
C26_NeverAllBlocked ==
    \A t \in streams :
        (state[t] = StatePlaying /\ pos[t] <= assets[t].len) =>
            /\ ~(DecoderBlocked(t) /\ RenderBlocked(t) /\ CallbackBlocked(t))
            /\ ENABLED DecoderStep(t) \/ ENABLED RenderStep(t) \/ ENABLED CallbackStep(t)
            /\ DecoderBlocked(t) =>
                  (Len(videoQ[t]) = VideoQueueCapacity /\ ENABLED RenderStep(t))
            /\ RenderBlocked(t) => (videoQ[t] = <<>> /\ ENABLED DecoderStep(t))

\* The session plays, the decoder waits on the full video queue with
\* packets left to read, the fill callback waits on the empty audio queue,
\* and the renderer is at its gate.
C26_Witness ==
    /\ state[1] = StatePlaying
    /\ pos[1] <= assets[1].len
    /\ DecoderBlocked(1)
    /\ CallbackBlocked(1)
    /\ rpc[1] = "gate"

(***************************************************************************)
(* Routing.                                                                *)
(***************************************************************************)
\* C10 as stated: every frame decode_one returned (but the one the decoder
\* holds) was accepted by exactly one queue, the one of its kind, in order.
C10_EveryFrameQueued ==
    \A t \in Textures :
        /\ Increasing(Ids(vSent[t])) /\ Increasing(Ids(aSent[t]))
        /\ Range(Ids(vSent[t])) = Decoded(t, "Video") \ InHand(t, "Video")
        /\ Range(Ids(aSent[t])) = Decoded(t, "Audio") \ InHand(t, "Audio")

\* C10, amended: every frame decode_one returned is in the decoder's hand,
\* or was accepted exactly once by the queue of its kind and by no other, in
\* decoding order, or was refused by the queue of its kind because the
\* queue's receiver had gone.
C10_RoutedOrRefused ==
    \A t \in Textures :
        /\ \A i \in 1..Len(vSent[t]) : vSent[t][i].kind = "Video"
        /\ \A i \in 1..Len(aSent[t]) : aSent[t][i].kind = "Audio"
        /\ Increasing(Ids(vSent[t])) /\ Increasing(Ids(aSent[t]))
        /\ IsSuffix(videoQ[t], vSent[t]) /\ IsSuffix(audioQ[t], aSent[t])
        /\ Decoded(t, "Video")
              = Range(Ids(vSent[t])) \cup LostOf(t, "Video") \cup InHand(t, "Video")
        /\ Decoded(t, "Audio")
              = Range(Ids(aSent[t])) \cup LostOf(t, "Audio") \cup InHand(t, "Audio")
        /\ Range(Ids(vSent[t])) \cap LostOf(t, "Video") = {}
        /\ Range(Ids(aSent[t])) \cap LostOf(t, "Audio") = {}
        /\ LostOf(t, "Video") # {} => ~VideoRxAlive(t)
        /\ LostOf(t, "Audio") # {} => ~AudioRxAlive(t)

\* Both queues have accepted frames and a later frame was refused.
C10_Witness ==
    /\ vSent[1] # <<>>
    /\ aSent[1] # <<>>
    /\ lost[1] # <<>>

====
